---- MODULE Spec2Model ----
(***************************************************************************)
(* chunksmith: the chunking core behind Api.process_pdf.                   *)
(*                                                                         *)
(* A text is a sequence of one-character strings; the multi-character      *)
(* literals the code writes into a text (the topic header, the topic       *)
(* separator, the fallback message, the error messages) are single tokens  *)
(* of such a sequence.  A document is what fitz yields: a sequence of      *)
(* pages, each a sequence of blocks; a block either carries "lines" (each  *)
(* line a sequence of spans with text and bbox) or does not (an image      *)
(* block).  Similarities, distances and thresholds are integers in         *)
(* thousandths (1000 is the similarity 1.0) and a percentile is given in   *)
(* tenths of a percent, so np.percentile's linear interpolation is exact.  *)
(* Chunk ids (uuid4) and page sizes are left out.                          *)
(***************************************************************************)
EXTENDS Integers, Sequences, FiniteSets

VARIABLES file, semantic, topic, loads, request, response, run

vars == <<file, semantic, topic, loads, request, response, run>>

(***************************************************************************)
(* Bounds of the model.                                                    *)
(***************************************************************************)
\* Leaves (spans, image blocks, empty pages) of a structured document.
MaxSize == 2
\* Blocks of a one-span-per-block document.
MaxUnits == 3
\* Largest num_topics a TopicChunker is constructed with.
MaxTopics == 2

(***************************************************************************)
(* Python string operations.                                               *)
(***************************************************************************)
Whitespace == {" "}

Terminals == {".", "!", "?"}

RECURSIVE LStrip(_)
LStrip(s) ==
    IF s # <<>> /\ Head(s) \in Whitespace THEN LStrip(Tail(s)) ELSE s

RECURSIVE RStrip(_)
RStrip(s) ==
    IF s # <<>> /\ s[Len(s)] \in Whitespace
    THEN RStrip(SubSeq(s, 1, Len(s) - 1))
    ELSE s

\* str.strip()
Strip(s) == RStrip(LStrip(s))

\* str.endswith(suffixes), each suffix one character
EndsWith(s, suffixes) == s # <<>> /\ s[Len(s)] \in suffixes

\* sep.join(parts)
RECURSIVE Join(_, _)
Join(parts, sep) ==
    IF parts = <<>> THEN <<>>
    ELSE IF Len(parts) = 1 THEN parts[1]
    ELSE parts[1] \o sep \o Join(Tail(parts), sep)

\* list.extend over a list of lists
RECURSIVE Concat(_)
Concat(lists) ==
    IF lists = <<>> THEN <<>> ELSE Head(lists) \o Concat(Tail(lists))

\* str.split(): the maximal runs of non-whitespace characters
RECURSIVE SplitFrom(_, _, _)
SplitFrom(s, i, word) ==
    IF i > Len(s) THEN (IF word = <<>> THEN <<>> ELSE <<word>>)
    ELSE IF s[i] \in Whitespace
         THEN (IF word = <<>> THEN <<>> ELSE <<word>>) \o SplitFrom(s, i + 1, <<>>)
         ELSE SplitFrom(s, i + 1, Append(word, s[i]))

Split(s) == SplitFrom(s, 1, <<>>)

Range(f) == {f[i] : i \in DOMAIN f}

(***************************************************************************)
(* Documents.                                                              *)
(***************************************************************************)
SpanTexts ==
    { <<"a">>, <<"b", ".">>, <<"c", "!">>, <<" ">>, <<"a", " ">> }

ImageBlock == [type |-> 1]

EmptyPage == [blocks |-> <<>>]

\* A line of n spans.
LinesOf(n) == {[spans |-> ts] : ts \in [1..n -> SpanTexts]}

\* The sequences of lines holding n spans in all, each line at least one.
RECURSIVE LineSeqs(_)
LineSeqs(n) ==
    IF n = 0 THEN {<<>>}
    ELSE UNION {{<<l>> \o r : l \in LinesOf(k), r \in LineSeqs(n - k)} : k \in 1..n}

BlocksOf(n) ==
    (IF n = 1 THEN {ImageBlock} ELSE {})
        \cup {[type |-> 0, lines |-> ls] : ls \in LineSeqs(n)}

RECURSIVE BlockSeqs(_)
BlockSeqs(n) ==
    IF n = 0 THEN {<<>>}
    ELSE UNION {{<<b>> \o r : b \in BlocksOf(k), r \in BlockSeqs(n - k)} : k \in 1..n}

PagesOf(n) ==
    (IF n = 1 THEN {EmptyPage} ELSE {})
        \cup {[blocks |-> bs] : bs \in BlockSeqs(n)}

RECURSIVE PageSeqs(_)
PageSeqs(n) ==
    IF n = 0 THEN {<<>>}
    ELSE UNION {{<<p>> \o r : p \in PagesOf(k), r \in PageSeqs(n - k)} : k \in 1..n}

\* Every span gets the bbox of its place on the page: spans run along x,
\* the lines of the page's blocks along y.
Layout(pages) ==
    [p \in DOMAIN pages |->
        [blocks |->
            [b \in DOMAIN pages[p].blocks |->
                LET block == pages[p].blocks[b] IN
                IF "lines" \notin DOMAIN block THEN block
                ELSE [type |-> 0,
                      lines |->
                        [l \in DOMAIN block.lines |->
                            [spans |->
                                [s \in DOMAIN block.lines[l].spans |->
                                    [text |-> block.lines[l].spans[s],
                                     bbox |-> <<s - 1, 10 * b + l,
                                                s, 10 * b + l + 1>>]]]]]]]]

\* The structured documents: at most MaxSize leaves.
Docs == {Layout(d) : d \in UNION {PageSeqs(n) : n \in 0..MaxSize}}

UnitTexts == { <<"a">>, <<"b", ".">> }

\* One page of n text blocks, each one line of one span.
UnitDocs ==
    {Layout(<<[blocks |-> [b \in DOMAIN ts |->
                  [type |-> 0, lines |-> <<[spans |-> <<ts[b]>>]>>]]]>>)
        : ts \in UNION {[1..n -> UnitTexts] : n \in 0..MaxUnits}}
            \cup {<<>>}

\* What a path leads to: no file, a file fitz cannot open, or a document.
MissingFile == [kind |-> "missing"]

UnreadableFile == [kind |-> "unreadable"]

Pdf(d) == [kind |-> "pdf", pages |-> d]

\* The spans of a block with lines, in reading order.
RECURSIVE BlockSpans(_)
BlockSpans(lines) ==
    IF lines = <<>> THEN <<>>
    ELSE Head(lines).spans \o BlockSpans(Tail(lines))

(***************************************************************************)
(* base.py                                                                 *)
(***************************************************************************)
BoundingBox(page, x0, y0, x1, y1) ==
    [page |-> page, x0 |-> x0, y0 |-> y0, x1 |-> x1, y1 |-> y1]

Chunk(text, bboxes, metadata) ==
    [text |-> text, bboxes |-> bboxes, metadata |-> metadata]

(***************************************************************************)
(* The Span Extractor: SemanticChunker._extract_sentences and its copy     *)
(* TopicChunker._extract_sentences.                                        *)
(***************************************************************************)
\* The accumulator of one block: the sentences closed so far, the open
\* sentence's text and bboxes.
NewAccumulator ==
    [sentences |-> <<>>, current_sent_text |-> <<>>, current_sent_bboxes |-> <<>>]

\* A variant of SpanStep that never inserts the separating space.
SpanStepGlued(acc, span, page_num) ==
    LET Close(text, appended, bboxes) ==
            IF EndsWith(Strip(text), Terminals)
            THEN [sentences |-> Append(acc.sentences,
                                       [text |-> Strip(appended), bboxes |-> bboxes]),
                  current_sent_text |-> <<>>,
                  current_sent_bboxes |-> <<>>]
            ELSE [sentences |-> acc.sentences,
                  current_sent_text |-> appended,
                  current_sent_bboxes |-> bboxes]
    IN  Close(span.text,
              acc.current_sent_text \o span.text,
              Append(acc.current_sent_bboxes,
                     BoundingBox(page_num, span.bbox[1], span.bbox[2],
                                 span.bbox[3], span.bbox[4])))

\* The body of the span loop.
SpanStep(acc, span, page_num) ==
    LET Close(text, appended, bboxes) ==
            IF EndsWith(Strip(text), Terminals)
            THEN [sentences |-> Append(acc.sentences,
                                       [text |-> Strip(appended), bboxes |-> bboxes]),
                  current_sent_text |-> <<>>,
                  current_sent_bboxes |-> <<>>]
            ELSE [sentences |-> acc.sentences,
                  current_sent_text |-> appended,
                  current_sent_bboxes |-> bboxes]
    IN  Close(span.text,
              (IF acc.current_sent_text # <<>>
                   /\ ~EndsWith(acc.current_sent_text, {" "})
                THEN acc.current_sent_text \o <<" ">>
                ELSE acc.current_sent_text) \o span.text,
              Append(acc.current_sent_bboxes,
                     BoundingBox(page_num, span.bbox[1], span.bbox[2],
                                 span.bbox[3], span.bbox[4])))

RECURSIVE SpanLoop(_, _, _)
SpanLoop(acc, spans, page_num) ==
    IF spans = <<>> THEN acc
    ELSE SpanLoop(SpanStep(acc, Head(spans), page_num), Tail(spans), page_num)

\* One block: the span loop, then the remaining text as a last sentence.
ExtractBlock(block, page_num) ==
    LET Remaining(acc) ==
            IF Strip(acc.current_sent_text) # <<>>
            THEN Append(acc.sentences,
                        [text |-> Strip(acc.current_sent_text),
                         bboxes |-> acc.current_sent_bboxes])
            ELSE acc.sentences
    IN  IF "lines" \notin DOMAIN block THEN <<>>
        ELSE Remaining(SpanLoop(NewAccumulator, BlockSpans(block.lines), page_num))

RECURSIVE ExtractBlocks(_, _)
ExtractBlocks(blocks, page_num) ==
    IF blocks = <<>> THEN <<>>
    ELSE ExtractBlock(Head(blocks), page_num) \o ExtractBlocks(Tail(blocks), page_num)

\* The pages from index page_num (0-based) on.
RECURSIVE ExtractPages(_, _)
ExtractPages(d, page_num) ==
    IF page_num >= Len(d) THEN <<>>
    ELSE ExtractBlocks(d[page_num + 1].blocks, page_num)
             \o ExtractPages(d, page_num + 1)

\* SemanticChunker._extract_sentences
ExtractSentences(d) == ExtractPages(d, 0)

\* TopicChunker._extract_sentences
TopicExtractSentences(d) == ExtractPages(d, 0)

(***************************************************************************)
(* basic.py                                                                *)
(***************************************************************************)
\* page.get_text("words") of fitz: the words of the page's spans in reading
\* order, each (x0, y0, x1, y1, word, block_no, line_no).
RECURSIVE SpanWords(_, _, _, _)
SpanWords(spans, block_no, line_no, words) ==
    IF spans = <<>> THEN words
    ELSE LET span == Head(spans)
             found == Split(span.text)
         IN  SpanWords(Tail(spans), block_no, line_no,
                       words \o [w \in DOMAIN found |->
                                    <<span.bbox[1], span.bbox[2], span.bbox[3],
                                      span.bbox[4], found[w], block_no, line_no>>])

RECURSIVE LineWords(_, _, _)
LineWords(lines, block_no, line_no) ==
    IF line_no >= Len(lines) THEN <<>>
    ELSE SpanWords(lines[line_no + 1].spans, block_no, line_no, <<>>)
             \o LineWords(lines, block_no, line_no + 1)

RECURSIVE GetTextWords(_, _)
GetTextWords(blocks, block_no) ==
    IF block_no >= Len(blocks) THEN <<>>
    ELSE (IF "lines" \in DOMAIN blocks[block_no + 1]
          THEN LineWords(blocks[block_no + 1].lines, block_no, 0)
          ELSE <<>>)
             \o GetTextWords(blocks, block_no + 1)

\* BasicWordChunker.chunk: the pages from index page_num on.
RECURSIVE BasicWordPages(_, _)
BasicWordPages(d, page_num) ==
    IF page_num >= Len(d) THEN <<>>
    ELSE LET words == GetTextWords(d[page_num + 1].blocks, 0)
         IN  [w \in DOMAIN words |->
                 Chunk(words[w][5],
                       <<BoundingBox(page_num, words[w][1], words[w][2],
                                     words[w][3], words[w][4])>>,
                       [block |-> words[w][6], line |-> words[w][7]])]
                 \o BasicWordPages(d, page_num + 1)

BasicWordChunk(d) == BasicWordPages(d, 0)

\* A variant of SentenceSpanStep that appends no space after the span.
SentenceSpanStepGlued(acc, span, page_num) ==
    LET Close(text, appended, bboxes) ==
            IF EndsWith(Strip(text), {"."})
            THEN [sentences |-> Append(acc.sentences,
                                       Chunk(Strip(appended), bboxes, <<>>)),
                  current_sent_text |-> <<>>,
                  current_sent_bboxes |-> <<>>]
            ELSE [sentences |-> acc.sentences,
                  current_sent_text |-> appended,
                  current_sent_bboxes |-> bboxes]
    IN  Close(span.text,
              acc.current_sent_text \o span.text,
              Append(acc.current_sent_bboxes,
                     BoundingBox(page_num, span.bbox[1], span.bbox[2],
                                 span.bbox[3], span.bbox[4])))

\* SentenceChunker.chunk: the body of the span loop.
SentenceSpanStep(acc, span, page_num) ==
    LET Close(text, appended, bboxes) ==
            IF EndsWith(Strip(text), {"."})
            THEN [sentences |-> Append(acc.sentences,
                                       Chunk(Strip(appended), bboxes, <<>>)),
                  current_sent_text |-> <<>>,
                  current_sent_bboxes |-> <<>>]
            ELSE [sentences |-> acc.sentences,
                  current_sent_text |-> appended,
                  current_sent_bboxes |-> bboxes]
    IN  Close(span.text,
              acc.current_sent_text \o span.text \o <<" ">>,
              Append(acc.current_sent_bboxes,
                     BoundingBox(page_num, span.bbox[1], span.bbox[2],
                                 span.bbox[3], span.bbox[4])))

RECURSIVE SentenceSpanLoop(_, _, _)
SentenceSpanLoop(acc, spans, page_num) ==
    IF spans = <<>> THEN acc
    ELSE SentenceSpanLoop(SentenceSpanStep(acc, Head(spans), page_num),
                          Tail(spans), page_num)

SentenceBlock(block, page_num) ==
    LET Remaining(acc) ==
            IF Strip(acc.current_sent_text) # <<>>
            THEN Append(acc.sentences,
                        Chunk(Strip(acc.current_sent_text),
                              acc.current_sent_bboxes, <<>>))
            ELSE acc.sentences
    IN  IF "lines" \notin DOMAIN block THEN <<>>
        ELSE Remaining(SentenceSpanLoop(NewAccumulator, BlockSpans(block.lines),
                                        page_num))

RECURSIVE SentenceBlocks(_, _)
SentenceBlocks(blocks, page_num) ==
    IF blocks = <<>> THEN <<>>
    ELSE SentenceBlock(Head(blocks), page_num) \o SentenceBlocks(Tail(blocks), page_num)

RECURSIVE SentencePages(_, _)
SentencePages(d, page_num) ==
    IF page_num >= Len(d) THEN <<>>
    ELSE SentenceBlocks(d[page_num + 1].blocks, page_num)
             \o SentencePages(d, page_num + 1)

\* SentenceChunker.chunk
SentenceChunk(d) == SentencePages(d, 0)

(***************************************************************************)
(* The embedding model and the faults of the libraries.                    *)
(***************************************************************************)
\* self._model = None
None == <<>>

\* SentenceTransformer(model_name)
SentenceTransformer(model_name) == <<model_name>>

\* What the libraries may do in one call: nothing wrong, SentenceTransformer()
\* raising, model.encode raising, KMeans.fit_predict raising.
Faults == {"none", "load", "encode", "cluster"}

\* cosine_similarity of two embeddings, in thousandths; the values beyond
\* -1000..1000 are numeric drift.
Similarities == {-2000, 0, 1000, 2000}

\* What a chunker run leaves behind: the value returned or the exception
\* raised, the chunker's _model afterwards, and its locals.
Outcome(raised, chunks, model, loaded, embedded, locals) ==
    [raised |-> raised, chunks |-> chunks, model |-> model, loaded |-> loaded,
     embedded |-> embedded, locals |-> locals]

NoLocals ==
    [sentences_data |-> <<>>, texts_to_embed |-> <<>>, distances |-> <<>>,
     threshold |-> <<>>, labels |-> <<>>]

\* A variant of ModelProperty that constructs the model on every access.
ModelPropertyReloading(self, fault) ==
    IF fault = "load"
    THEN [raised |-> <<"SentenceTransformer: ", self.model_name>>,
          model |-> self.model, loaded |-> FALSE]
    ELSE [raised |-> <<>>, model |-> SentenceTransformer(self.model_name),
          loaded |-> TRUE]

\* The property `model` of SemanticChunker and of TopicChunker.
ModelProperty(self, fault) ==
    IF self.model = None
    THEN IF fault = "load"
         THEN [raised |-> <<"SentenceTransformer: ", self.model_name>>,
               model |-> self.model, loaded |-> FALSE]
         ELSE [raised |-> <<>>, model |-> SentenceTransformer(self.model_name),
               loaded |-> TRUE]
    ELSE [raised |-> <<>>, model |-> self.model, loaded |-> FALSE]

(***************************************************************************)
(* semantic.py                                                             *)
(***************************************************************************)
Max(a, b) == IF a >= b THEN a ELSE b

Min(a, b) == IF a <= b THEN a ELSE b

Texts(sentences_data) == [i \in DOMAIN sentences_data |-> sentences_data[i].text]

Bboxes(sentences_data) == [i \in DOMAIN sentences_data |-> sentences_data[i].bboxes]

\* sentences_data[start:end]
Slice(sentences_data, start, end) ==
    SubSeq(sentences_data, start + 1, Min(end, Len(sentences_data)))

\* A variant of CreateChunk whose slice stops one sentence early.
CreateChunkShort(sentences_data, start_idx, end_idx) ==
    LET subset == Slice(sentences_data, start_idx, end_idx - 1)
    IN  Chunk(Join(Texts(subset), <<" ">>),
              Concat(Bboxes(subset)),
              [sentence_count |-> Len(subset)])

\* SemanticChunker._create_chunk
CreateChunk(sentences_data, start_idx, end_idx) ==
    LET subset == Slice(sentences_data, start_idx, end_idx)
    IN  Chunk(Join(Texts(subset), <<" ">>),
              Concat(Bboxes(subset)),
              [sentence_count |-> Len(subset)])

\* Step 2: the window text of every sentence (i is 0-based).
TextsToEmbed(sentences_data, window_size) ==
    [k \in DOMAIN sentences_data |->
        LET i == k - 1
            start == Max(0, i - window_size)
            end == Min(Len(sentences_data), i + window_size + 1)
        IN  Join(Texts(Slice(sentences_data, start, end)), <<" ">>)]

\* Step 4: the clamped similarity of each adjacent pair, as a distance.
Distances(sims) ==
    [i \in DOMAIN sims |-> 1000 - Max(-1000, Min(1000, sims[i]))]

\* sorted(values)
RECURSIVE Insert(_, _)
Insert(x, sorted) ==
    IF sorted = <<>> THEN <<x>>
    ELSE IF x <= Head(sorted) THEN <<x>> \o sorted
    ELSE <<Head(sorted)>> \o Insert(x, Tail(sorted))

RECURSIVE Sorted(_)
Sorted(values) ==
    IF values = <<>> THEN <<>> ELSE Insert(Head(values), Sorted(Tail(values)))

\* A variant of Percentile that interpolates in the list as given, unsorted.
PercentileUnsorted(values, q) ==
    LET position == q * (Len(values) - 1)
        below == position \div 1000
        fraction == position % 1000
        above == Min(below + 1, Len(values) - 1)
    IN  values[below + 1]
            + ((values[above + 1] - values[below + 1]) * fraction) \div 1000

\* np.percentile(values, q) for 0 <= q <= 100 (q in tenths of a percent):
\* linear interpolation between the two nearest ranks.
Percentile(values, q) ==
    LET ordered == Sorted(values)
        position == q * (Len(values) - 1)
        below == position \div 1000
        fraction == position % 1000
        above == Min(below + 1, Len(values) - 1)
    IN  ordered[below + 1]
            + ((ordered[above + 1] - ordered[below + 1]) * fraction) \div 1000

\* A variant of SplitLoop that also splits at a distance equal to the threshold.
RECURSIVE SplitLoopInclusive(_, _, _, _, _)
SplitLoopInclusive(sentences_data, distances, threshold, i, start_idx) ==
    IF i >= Len(distances)
    THEN IF start_idx < Len(sentences_data)
         THEN <<CreateChunk(sentences_data, start_idx, Len(sentences_data))>>
         ELSE <<>>
    ELSE IF distances[i + 1] >= threshold
         THEN <<CreateChunk(sentences_data, start_idx, i + 1)>>
                  \o SplitLoopInclusive(sentences_data, distances, threshold,
                                        i + 1, i + 1)
         ELSE SplitLoopInclusive(sentences_data, distances, threshold,
                                 i + 1, start_idx)

\* Step 6: the split loop from distance i (0-based) on, then the final chunk.
RECURSIVE SplitLoop(_, _, _, _, _)
SplitLoop(sentences_data, distances, threshold, i, start_idx) ==
    IF i >= Len(distances)
    THEN IF start_idx < Len(sentences_data)
         THEN <<CreateChunk(sentences_data, start_idx, Len(sentences_data))>>
         ELSE <<>>
    ELSE IF distances[i + 1] > threshold
         THEN <<CreateChunk(sentences_data, start_idx, i + 1)>>
                  \o SplitLoop(sentences_data, distances, threshold, i + 1, i + 1)
         ELSE SplitLoop(sentences_data, distances, threshold, i + 1, start_idx)

\* A variant of SemanticChunk without the early return on no sentences.
SemanticChunkNoEmptyCheck(self, d, sims, fault) ==
    LET Segment(sentences_data, locals, model, distances) ==
            IF model.raised # <<>>
            THEN Outcome(model.raised, <<>>, model.model, FALSE, FALSE, locals)
            ELSE IF fault = "encode"
            THEN Outcome(<<"encode">>, <<>>, model.model, model.loaded, FALSE,
                         locals)
            ELSE IF distances = <<>>
            THEN Outcome(<<>>, <<CreateChunk(sentences_data, 0, 1)>>, model.model,
                         model.loaded, TRUE, locals)
            ELSE IF self.percentile_threshold < 0
                    \/ self.percentile_threshold > 1000
            THEN Outcome(<<"Percentiles must be in the range [0, 100]">>, <<>>,
                         model.model, model.loaded, TRUE,
                         [locals EXCEPT !.distances = distances])
            ELSE LET threshold == Percentile(distances, self.percentile_threshold)
                 IN  Outcome(<<>>,
                             SplitLoop(sentences_data, distances, threshold, 0, 0),
                             model.model, model.loaded, TRUE,
                             [locals EXCEPT !.distances = distances,
                                            !.threshold = <<threshold>>])
        Embed(sentences_data) ==
            Segment(sentences_data,
                       [NoLocals EXCEPT
                           !.sentences_data = sentences_data,
                           !.texts_to_embed =
                               TextsToEmbed(sentences_data, self.window_size)],
                       ModelProperty(self, fault),
                       Distances(sims))
    IN  Embed(ExtractSentences(d))

\* SemanticChunker.chunk on document d; sims are the cosine similarities of
\* the adjacent window embeddings the model produces.
SemanticChunk(self, d, sims, fault) ==
    LET Segment(sentences_data, locals, model, distances) ==
            IF model.raised # <<>>
            THEN Outcome(model.raised, <<>>, model.model, FALSE, FALSE, locals)
            ELSE IF fault = "encode"
            THEN Outcome(<<"encode">>, <<>>, model.model, model.loaded, FALSE,
                         locals)
            ELSE IF distances = <<>>
            THEN Outcome(<<>>, <<CreateChunk(sentences_data, 0, 1)>>, model.model,
                         model.loaded, TRUE, locals)
            ELSE IF self.percentile_threshold < 0
                    \/ self.percentile_threshold > 1000
            THEN Outcome(<<"Percentiles must be in the range [0, 100]">>, <<>>,
                         model.model, model.loaded, TRUE,
                         [locals EXCEPT !.distances = distances])
            ELSE LET threshold == Percentile(distances, self.percentile_threshold)
                 IN  Outcome(<<>>,
                             SplitLoop(sentences_data, distances, threshold, 0, 0),
                             model.model, model.loaded, TRUE,
                             [locals EXCEPT !.distances = distances,
                                            !.threshold = <<threshold>>])
        Embed(sentences_data) ==
            IF sentences_data = <<>>
            THEN Outcome(<<>>, <<>>, self.model, FALSE, FALSE, NoLocals)
            ELSE Segment(sentences_data,
                       [NoLocals EXCEPT
                           !.sentences_data = sentences_data,
                           !.texts_to_embed =
                               TextsToEmbed(sentences_data, self.window_size)],
                       ModelProperty(self, fault),
                       Distances(sims))
    IN  Embed(ExtractSentences(d))

(***************************************************************************)
(* topic.py                                                                *)
(***************************************************************************)
Digits == <<"0", "1", "2", "3", "4", "5", "6", "7", "8", "9">>

\* str(n) of a one-digit number
Str(n) == Digits[n + 1]

TopicSeparator == "\n\n---\n\n"

FallbackText == "Full Document (Too few sentences for topic modeling)"

\* TopicChunker._create_fallback_chunk
CreateFallbackChunk(sentences_data) ==
    LET combined_text == Join(Texts(sentences_data), <<" ">>)
        combined_bboxes == Concat(Bboxes(sentences_data))
    IN  <<Chunk(<<FallbackText>>, combined_bboxes, <<>>)>>

\* Step 4: clusters[label], the sentences with that label in document order.
RECURSIVE Cluster(_, _, _)
Cluster(sentences_data, labels, label) ==
    IF sentences_data = <<>> THEN <<>>
    ELSE (IF Head(labels) = label THEN <<Head(sentences_data)>> ELSE <<>>)
             \o Cluster(Tail(sentences_data), Tail(labels), label)

\* A variant of TopicChunks that numbers the topics from 0 in the header.
RECURSIVE TopicChunksZeroBased(_, _, _, _)
TopicChunksZeroBased(sentences_data, labels, label, num_topics) ==
    IF label >= num_topics THEN <<>>
    ELSE LET cluster_sentences == Cluster(sentences_data, labels, label)
             combined_text == Join(Texts(cluster_sentences), <<TopicSeparator>>)
         IN  (IF cluster_sentences = <<>> THEN <<>>
              ELSE <<Chunk(<<"TOPIC ", Str(label), ":\n">> \o combined_text,
                           Concat(Bboxes(cluster_sentences)),
                           [topic_id |-> label,
                            sentence_count |-> Len(cluster_sentences)])>>)
                 \o TopicChunksZeroBased(sentences_data, labels, label + 1,
                                         num_topics)

\* Step 5: the chunks of the clusters from `label` on.
RECURSIVE TopicChunks(_, _, _, _)
TopicChunks(sentences_data, labels, label, num_topics) ==
    IF label >= num_topics THEN <<>>
    ELSE LET cluster_sentences == Cluster(sentences_data, labels, label)
             combined_text == Join(Texts(cluster_sentences), <<TopicSeparator>>)
         IN  (IF cluster_sentences = <<>> THEN <<>>
              ELSE <<Chunk(<<"TOPIC ", Str(label + 1), ":\n">> \o combined_text,
                           Concat(Bboxes(cluster_sentences)),
                           [topic_id |-> label,
                            sentence_count |-> Len(cluster_sentences)])>>)
                 \o TopicChunks(sentences_data, labels, label + 1, num_topics)

\* A variant of TopicChunk that tests for too few sentences before it tests
\* for none.
TopicChunkFallbackFirst(self, d, labels, fault) ==
    LET Group(sentences_data, locals, model) ==
            IF model.raised # <<>>
            THEN Outcome(model.raised, <<>>, model.model, FALSE, FALSE, locals)
            ELSE IF fault = "encode"
            THEN Outcome(<<"encode">>, <<>>, model.model, model.loaded, FALSE,
                         locals)
            ELSE IF fault = "cluster"
            THEN Outcome(<<"KMeans">>, <<>>, model.model, model.loaded, TRUE,
                         locals)
            ELSE Outcome(<<>>,
                         TopicChunks(sentences_data, labels, 0, self.num_topics),
                         model.model, model.loaded, TRUE,
                         [locals EXCEPT !.labels = labels])
        Embed(sentences_data) ==
            IF Len(sentences_data) < self.num_topics
            THEN Outcome(<<>>, CreateFallbackChunk(sentences_data), self.model,
                         FALSE, FALSE,
                         [NoLocals EXCEPT !.sentences_data = sentences_data])
            ELSE IF sentences_data = <<>>
            THEN Outcome(<<>>, <<>>, self.model, FALSE, FALSE, NoLocals)
            ELSE Group(sentences_data,
                       [NoLocals EXCEPT !.sentences_data = sentences_data],
                       ModelProperty(self, fault))
    IN  Embed(TopicExtractSentences(d))

\* TopicChunker.chunk on document d; labels is what KMeans.fit_predict
\* returns for the embeddings of the sentences.
TopicChunk(self, d, labels, fault) ==
    LET Group(sentences_data, locals, model) ==
            IF model.raised # <<>>
            THEN Outcome(model.raised, <<>>, model.model, FALSE, FALSE, locals)
            ELSE IF fault = "encode"
            THEN Outcome(<<"encode">>, <<>>, model.model, model.loaded, FALSE,
                         locals)
            ELSE IF fault = "cluster"
            THEN Outcome(<<"KMeans">>, <<>>, model.model, model.loaded, TRUE,
                         locals)
            ELSE Outcome(<<>>,
                         TopicChunks(sentences_data, labels, 0, self.num_topics),
                         model.model, model.loaded, TRUE,
                         [locals EXCEPT !.labels = labels])
        Embed(sentences_data) ==
            IF sentences_data = <<>>
            THEN Outcome(<<>>, <<>>, self.model, FALSE, FALSE, NoLocals)
            ELSE IF Len(sentences_data) < self.num_topics
            THEN Outcome(<<>>, CreateFallbackChunk(sentences_data), self.model,
                         FALSE, FALSE,
                         [NoLocals EXCEPT !.sentences_data = sentences_data])
            ELSE Group(sentences_data,
                       [NoLocals EXCEPT !.sentences_data = sentences_data],
                       ModelProperty(self, fault))
    IN  Embed(TopicExtractSentences(d))

(***************************************************************************)
(* api.py                                                                  *)
(***************************************************************************)
ModelName == "all-MiniLM-L6-v2"

\* The defaults of SemanticChunker.__init__ (90.0 percent) and of
\* TopicChunker.__init__.
DefaultPercentile == 900

DefaultWindowSize == 1

DefaultNumTopics == 5

\* SemanticChunker(percentile_threshold=q)
NewSemanticChunker(q) ==
    [model_name |-> ModelName, percentile_threshold |-> q,
     window_size |-> DefaultWindowSize, model |-> None]

\* TopicChunker(num_topics=k)
NewTopicChunker(k) ==
    [model_name |-> ModelName, num_topics |-> k, model |-> None]

\* The name properties of the four chunkers.
BasicWordChunkerName == <<"Basic Word Chunker">>

SentenceChunkerName == <<"Sentence Chunker">>

SemanticChunkerName == <<"Semantic Chunker (Percentile)">>

TopicChunkerName(self) == <<"Topic Chunker (K-Means k=", Str(self.num_topics), ")">>

\* list(self.chunkers.keys())
ChunkerKeys ==
    <<BasicWordChunkerName, SentenceChunkerName, SemanticChunkerName,
      TopicChunkerName(topic)>>

\* A name the registry never holds: the topic chunker's without its k.
UnknownNames == {<<"Topic Chunker">>}

FileNotFound == [error |-> <<"File not found">>]

AlgorithmNotFound(algorithm_name) ==
    [error |-> <<"Algorithm '", algorithm_name, "' not found. Available: ",
                 ChunkerKeys>>]

\* pages_info, without the page sizes
PagesInfo(d) == [p \in DOMAIN d |-> [page |-> p - 1]]

\* The locals of a call that ran no chunker.
NoRun == [chunker |-> <<>>, loaded |-> FALSE, embedded |-> FALSE,
          locals |-> NoLocals]

\* chunker.chunk(pdf_path) of the chunker registered under algorithm_name
RunChunker(algorithm_name, d, sims, labels, fault) ==
    IF algorithm_name = BasicWordChunkerName
    THEN Outcome(<<>>, BasicWordChunk(d), None, FALSE, FALSE, NoLocals)
    ELSE IF algorithm_name = SentenceChunkerName
    THEN Outcome(<<>>, SentenceChunk(d), None, FALSE, FALSE, NoLocals)
    ELSE IF algorithm_name = SemanticChunkerName
    THEN SemanticChunk(semantic, d, sims, fault)
    ELSE TopicChunk(topic, d, labels, fault)

\* What a call leaves behind: the value returned, the two embedding
\* chunkers' _model, and the chunker run.
Returned(value, semantic_model, topic_model, ran) ==
    [response |-> value, semantic_model |-> semantic_model,
     topic_model |-> topic_model, run |-> ran]

\* A variant of ProcessPdf whose serialization runs in a finally clause: a
\* chunker that raises still yields a response, with the chunks so far.
ProcessPdfPartial(pdf, algorithm_name, sims, labels, fault) ==
    LET Respond(d, out) ==
            LET ran == [chunker |-> algorithm_name, loaded |-> out.loaded,
                        embedded |-> out.embedded, locals |-> out.locals]
                semantic_model == IF algorithm_name = SemanticChunkerName
                                  THEN out.model ELSE semantic.model
                topic_model == IF algorithm_name = TopicChunkerName(topic)
                               THEN out.model ELSE topic.model
            IN  Returned([page_count |-> Len(d), pages |-> PagesInfo(d),
                          chunks |-> out.chunks],
                         semantic_model, topic_model, ran)
    IN  IF pdf.kind = "missing"
        THEN Returned(FileNotFound, semantic.model, topic.model, NoRun)
        ELSE IF algorithm_name \notin Range(ChunkerKeys)
        THEN Returned(AlgorithmNotFound(algorithm_name), semantic.model,
                      topic.model, NoRun)
        ELSE IF pdf.kind = "unreadable"
        THEN Returned([error |-> <<"fitz.open">>], semantic.model, topic.model,
                      NoRun)
        ELSE Respond(pdf.pages,
                     RunChunker(algorithm_name, pdf.pages, sims, labels, fault))

\* A variant of ProcessPdf that looks the algorithm up before the file.
ProcessPdfLookupFirst(pdf, algorithm_name, sims, labels, fault) ==
    LET Respond(d, out) ==
            LET ran == [chunker |-> algorithm_name, loaded |-> out.loaded,
                        embedded |-> out.embedded, locals |-> out.locals]
                semantic_model == IF algorithm_name = SemanticChunkerName
                                  THEN out.model ELSE semantic.model
                topic_model == IF algorithm_name = TopicChunkerName(topic)
                               THEN out.model ELSE topic.model
            IN  IF out.raised # <<>>
                THEN Returned([error |-> out.raised], semantic_model,
                              topic_model, ran)
                ELSE Returned([page_count |-> Len(d), pages |-> PagesInfo(d),
                               chunks |-> out.chunks],
                              semantic_model, topic_model, ran)
    IN  IF algorithm_name \notin Range(ChunkerKeys)
        THEN Returned(AlgorithmNotFound(algorithm_name), semantic.model,
                      topic.model, NoRun)
        ELSE IF pdf.kind = "missing"
        THEN Returned(FileNotFound, semantic.model, topic.model, NoRun)
        ELSE IF pdf.kind = "unreadable"
        THEN Returned([error |-> <<"fitz.open">>], semantic.model, topic.model,
                      NoRun)
        ELSE Respond(pdf.pages,
                     RunChunker(algorithm_name, pdf.pages, sims, labels, fault))

\* Api.process_pdf
ProcessPdf(pdf, algorithm_name, sims, labels, fault) ==
    LET Respond(d, out) ==
            LET ran == [chunker |-> algorithm_name, loaded |-> out.loaded,
                        embedded |-> out.embedded, locals |-> out.locals]
                semantic_model == IF algorithm_name = SemanticChunkerName
                                  THEN out.model ELSE semantic.model
                topic_model == IF algorithm_name = TopicChunkerName(topic)
                               THEN out.model ELSE topic.model
            IN  IF out.raised # <<>>
                THEN Returned([error |-> out.raised], semantic_model,
                              topic_model, ran)
                ELSE Returned([page_count |-> Len(d), pages |-> PagesInfo(d),
                               chunks |-> out.chunks],
                              semantic_model, topic_model, ran)
    IN  IF pdf.kind = "missing"
        THEN Returned(FileNotFound, semantic.model, topic.model, NoRun)
        ELSE IF algorithm_name \notin Range(ChunkerKeys)
        THEN Returned(AlgorithmNotFound(algorithm_name), semantic.model,
                      topic.model, NoRun)
        ELSE IF pdf.kind = "unreadable"
        THEN Returned([error |-> <<"fitz.open">>], semantic.model, topic.model,
                      NoRun)
        ELSE Respond(pdf.pages,
                     RunChunker(algorithm_name, pdf.pages, sims, labels, fault))

(***************************************************************************)
(* The state machine: one Api, one path, calls of process_pdf one after    *)
(* the other.                                                              *)
(***************************************************************************)
NoResponse == [pending |-> TRUE]

\* percentile_threshold values, in tenths of a percent: -1.1, 0, 1.1, 50,
\* 90 and 100.
Percentiles == {-11, 0, 11, 500, 900, 1000}

InitCommon ==
    /\ loads = [semantic |-> 0, topic |-> 0]
    /\ request = <<>>
    /\ response = NoResponse
    /\ run = NoRun

\* Api.__init__, the path leading to any file.
Init ==
    /\ file \in {MissingFile, UnreadableFile} \cup {Pdf(d) : d \in Docs}
    /\ semantic = NewSemanticChunker(DefaultPercentile)
    /\ topic = NewTopicChunker(DefaultNumTopics)
    /\ InitCommon

\* A SemanticChunker of any percentile_threshold.
InitSemantic ==
    /\ file \in {Pdf(d) : d \in UnitDocs}
    /\ semantic \in {NewSemanticChunker(q) : q \in Percentiles}
    /\ topic = NewTopicChunker(DefaultNumTopics)
    /\ InitCommon

\* A TopicChunker of any num_topics.
InitTopic ==
    /\ file \in {Pdf(d) : d \in UnitDocs}
    /\ semantic = NewSemanticChunker(DefaultPercentile)
    /\ topic \in {NewTopicChunker(k) : k \in 1..MaxTopics}
    /\ InitCommon

\* The structured documents of at most one page, of text blocks of one line.
PageDocs ==
    {d \in Docs : /\ Len(d) <= 1
                  /\ \A p \in DOMAIN d : \A b \in DOMAIN d[p].blocks :
                         /\ "lines" \in DOMAIN d[p].blocks[b]
                         /\ Len(d[p].blocks[b].lines) <= 1}

\* Any path, a SemanticChunker of a valid or of an invalid
\* percentile_threshold, and a TopicChunker of few enough topics to cluster
\* the structured documents.
InitAny ==
    /\ file \in {MissingFile, UnreadableFile} \cup {Pdf(d) : d \in PageDocs}
    /\ semantic \in {NewSemanticChunker(q) : q \in {-11, DefaultPercentile}}
    /\ topic = NewTopicChunker(MaxTopics)
    /\ InitCommon

\* The sentences the Span Extractor finds in the file.
FileSentences ==
    IF file.kind = "pdf" THEN ExtractSentences(file.pages) ELSE <<>>

Call(algorithm_name, sims, labels, fault) ==
    LET Return(r) ==
            /\ request' = algorithm_name
            /\ response' = r.response
            /\ semantic' = [semantic EXCEPT !.model = r.semantic_model]
            /\ topic' = [topic EXCEPT !.model = r.topic_model]
            /\ loads' = [semantic |-> loads.semantic
                                        + (IF r.run.loaded
                                              /\ r.run.chunker = SemanticChunkerName
                                           THEN 1 ELSE 0),
                         topic |-> loads.topic
                                        + (IF r.run.loaded
                                              /\ r.run.chunker = TopicChunkerName(topic)
                                           THEN 1 ELSE 0)]
            /\ run' = r.run
            /\ UNCHANGED file
    IN  Return(ProcessPdf(file, algorithm_name, sims, labels, fault))

\* The two chunkers of basic.py use no library that the model lets fail.
ProcessPdfBasicWord ==
    /\ Call(BasicWordChunkerName, <<>>, <<>>, "none")

ProcessPdfSentence ==
    /\ Call(SentenceChunkerName, <<>>, <<>>, "none")

\* The faults a call on this chunker may meet: SentenceTransformer() is
\* called, and so may raise, only while _model is None.
PossibleFaults(self) ==
    IF self.model = None THEN Faults ELSE Faults \ {"load"}

\* The model yields similarities, and KMeans labels, only when no library
\* call raises.
ProcessPdfSemantic ==
    \E fault \in PossibleFaults(semantic) \ {"cluster"} :
        \E sims \in (IF fault = "none"
                     THEN [1..(Len(FileSentences) - 1) -> Similarities]
                     ELSE {<<>>}) :
            Call(SemanticChunkerName, sims, <<>>, fault)

ProcessPdfTopic ==
    \E fault \in PossibleFaults(topic) :
        \E labels \in (IF fault = "none"
                          /\ Len(FileSentences) >= topic.num_topics
                       THEN [1..Len(FileSentences) -> 0..(topic.num_topics - 1)]
                       ELSE {<<>>}) :
            Call(TopicChunkerName(topic), <<>>, labels, fault)

ProcessPdfUnknown ==
    /\ \E algorithm_name \in UnknownNames :
           Call(algorithm_name, <<>>, <<>>, "none")

Next ==
    \/ ProcessPdfBasicWord
    \/ ProcessPdfSentence
    \/ ProcessPdfSemantic
    \/ ProcessPdfTopic
    \/ ProcessPdfUnknown

Spec == Init /\ [][Next]_vars

SpecSemantic == InitSemantic /\ [][Next]_vars

SpecTopic == InitTopic /\ [][Next]_vars

SpecAny == InitAny /\ [][Next]_vars

(***************************************************************************)
(* Vocabulary of the properties.                                           *)
(***************************************************************************)
\* The texts of all spans of a document, in traversal order.
RECURSIVE BlockSeqSpanTexts(_)
BlockSeqSpanTexts(blocks) ==
    IF blocks = <<>> THEN <<>>
    ELSE (IF "lines" \in DOMAIN Head(blocks)
          THEN LET spans == BlockSpans(Head(blocks).lines)
               IN  [i \in DOMAIN spans |-> spans[i].text]
          ELSE <<>>)
             \o BlockSeqSpanTexts(Tail(blocks))

RECURSIVE SpanTextsOf(_)
SpanTextsOf(d) ==
    IF d = <<>> THEN <<>>
    ELSE BlockSeqSpanTexts(Head(d).blocks) \o SpanTextsOf(Tail(d))

\* The words of a sequence of texts, in order.
WordsOf(texts) == Concat([i \in DOMAIN texts |-> Split(texts[i])])

\* The words of all spans of a document, in traversal order.
InputWords(d) == WordsOf(SpanTextsOf(d))

\* The call returned a complete response.
Answered == "chunks" \in DOMAIN response

\* The call returned an error result.
Failed == "error" \in DOMAIN response

\* The call ran the embedding chunker of that name.
RanSemantic == run.chunker = SemanticChunkerName

RanTopic == run.chunker = TopicChunkerName(topic)

\* How often x occurs in the sequence s.
Count(s, x) == Cardinality({i \in DOMAIN s : s[i] = x})

\* The two sequences hold the same elements, each as often.
SameBag(s, t) ==
    /\ Len(s) = Len(t)
    /\ \A i \in DOMAIN s : Count(s, s[i]) = Count(t, s[i])

(***************************************************************************)
(* C1.  For every document, the sentence units _extract_sentences returns  *)
(* have non-empty text, and their texts joined with single spaces hold     *)
(* exactly the words of all input spans, in traversal order.               *)
(***************************************************************************)
C1_ExtractorKeepsWords ==
    (RanSemantic \/ RanTopic) =>
        LET units == run.locals.sentences_data
        IN  /\ \A i \in DOMAIN units : units[i].text # <<>>
            /\ Split(Join(Texts(units), <<" ">>)) = InputWords(file.pages)

\* A unit made of two spans whose words the inserted space keeps apart,
\* followed by a second unit.
C1_Witness ==
    /\ RanSemantic
    /\ \E i \in DOMAIN run.locals.sentences_data :
           /\ Len(run.locals.sentences_data[i].bboxes) >= 2
           /\ Len(Split(run.locals.sentences_data[i].text)) >= 2

(***************************************************************************)
(* C2.  The chunks TopicChunker.chunk returns hold every extracted         *)
(* sentence unit exactly once, for every document and label assignment:    *)
(* the unit texts read back from the chunk texts, and the chunks' bboxes,  *)
(* are those of the units, none left out and none twice.                   *)
(***************************************************************************)
\* The texts between the separators of a topic chunk's text.
RECURSIVE SeparatedParts(_, _)
SeparatedParts(text, part) ==
    IF text = <<>> THEN <<part>>
    ELSE IF Head(text) = TopicSeparator
         THEN <<part>> \o SeparatedParts(Tail(text), <<>>)
         ELSE SeparatedParts(Tail(text), Append(part, Head(text)))

\* The unit texts a chunk's text holds: after the topic header, if any.
UnitTextsIn(chunk) ==
    IF Len(chunk.text) >= 3 /\ chunk.text[1] = "TOPIC "
    THEN SeparatedParts(SubSeq(chunk.text, 4, Len(chunk.text)), <<>>)
    ELSE SeparatedParts(chunk.text, <<>>)

C2_TopicChunksHoldEveryUnitOnce ==
    (RanTopic /\ Answered) =>
        LET units == TopicExtractSentences(file.pages)
            chunks == response.chunks
        IN  /\ SameBag(Concat([c \in DOMAIN chunks |-> UnitTextsIn(chunks[c])]),
                       Texts(units))
            /\ SameBag(Concat(Bboxes(chunks)), Concat(Bboxes(units)))

(***************************************************************************)
(* C3.  As claimed: TopicChunker.chunk returns at most num_topics chunks,  *)
(* and exactly one whenever there are fewer sentence units than            *)
(* num_topics.                                                             *)
(***************************************************************************)
C3_OneChunkBelowNumTopics ==
    (RanTopic /\ Answered) =>
        LET n == Len(TopicExtractSentences(file.pages))
        IN  /\ Len(response.chunks) <= topic.num_topics
            /\ n < topic.num_topics => Len(response.chunks) = 1

(***************************************************************************)
(* C3, amended.  TopicChunker.chunk returns at most num_topics chunks;     *)
(* with at least one but fewer than num_topics sentence units it returns   *)
(* exactly one chunk, the fallback chunk; with no sentence unit it returns *)
(* no chunk.                                                               *)
(***************************************************************************)
C3_FallbackBelowNumTopics ==
    (RanTopic /\ Answered) =>
        LET n == Len(TopicExtractSentences(file.pages))
        IN  /\ Len(response.chunks) <= topic.num_topics
            /\ (0 < n /\ n < topic.num_topics) =>
                   /\ Len(response.chunks) = 1
                   /\ response.chunks[1].text = <<FallbackText>>
            /\ n = 0 => response.chunks = <<>>

\* One sentence unit, two topics asked for: the fallback chunk.
C3_Witness ==
    /\ RanTopic
    /\ Answered
    /\ Len(TopicExtractSentences(file.pages)) = 1
    /\ topic.num_topics = 2
    /\ Len(response.chunks) = 1

(***************************************************************************)
(* C4.  SemanticChunker.chunk on n >= 2 sentence units splits after unit i *)
(* exactly when the adjacent distance i strictly exceeds the percentile    *)
(* threshold: the chunks are the maximal runs of consecutive units between *)
(* the splits, in document order, every unit in exactly one chunk, and     *)
(* there is one chunk more than there are distances above the threshold.   *)
(***************************************************************************)
\* The units (1-based) after which the distance exceeds the threshold.
SplitPoints(distances, threshold) ==
    {i \in DOMAIN distances : distances[i] > threshold}

\* The number of units in the chunks before chunk j.
RECURSIVE UnitsBefore(_, _)
UnitsBefore(chunks, j) ==
    IF j <= 1 THEN 0
    ELSE UnitsBefore(chunks, j - 1) + chunks[j - 1].metadata.sentence_count

C4_SplitsWhereDistanceExceedsThreshold ==
    (RanSemantic /\ Answered /\ Len(run.locals.sentences_data) >= 2) =>
        LET units == run.locals.sentences_data
            chunks == response.chunks
            splits == SplitPoints(run.locals.distances, run.locals.threshold[1])
        IN  /\ Len(run.locals.distances) = Len(units) - 1
            /\ Len(chunks) = 1 + Cardinality(splits)
            /\ UnitsBefore(chunks, Len(chunks) + 1) = Len(units)
            /\ \A j \in DOMAIN chunks :
                   LET first == UnitsBefore(chunks, j) + 1
                       last == UnitsBefore(chunks, j + 1)
                       members == SubSeq(units, first, last)
                   IN  /\ first <= last
                       /\ chunks[j].text = Join(Texts(members), <<" ">>)
                       /\ chunks[j].bboxes = Concat(Bboxes(members))
                       /\ \A i \in first..(last - 1) : i \notin splits
                       /\ last < Len(units) => last \in splits

\* Three units, one distance above the threshold, two chunks.
C4_Witness ==
    /\ RanSemantic
    /\ Answered
    /\ Len(run.locals.sentences_data) = 3
    /\ Len(response.chunks) = 2
    /\ Cardinality(SplitPoints(run.locals.distances, run.locals.threshold[1])) = 1

(***************************************************************************)
(* C5.  For a fixed document and fixed adjacent distances, the number of   *)
(* chunks SemanticChunker.chunk returns does not grow as                   *)
(* percentile_threshold grows towards 100: no higher percentile gives more *)
(* chunks than the one used, and no lower percentile gives fewer.          *)
(***************************************************************************)
\* The similarities that give these distances.
SimilaritiesOf(distances) == [i \in DOMAIN distances |-> 1000 - distances[i]]

\* The number of chunks of the same document and distances under
\* percentile_threshold q.
ChunkCountAt(q) ==
    Len(SemanticChunk([semantic EXCEPT !.percentile_threshold = q], file.pages,
                      SimilaritiesOf(run.locals.distances), "none").chunks)

ValidPercentiles == {q \in Percentiles : 0 <= q /\ q <= 1000}

C5_ChunkCountFallsWithPercentile ==
    (RanSemantic /\ Answered /\ Len(run.locals.sentences_data) >= 2) =>
        \A q \in ValidPercentiles :
            /\ semantic.percentile_threshold <= q =>
                   ChunkCountAt(q) <= Len(response.chunks)
            /\ q <= semantic.percentile_threshold =>
                   ChunkCountAt(q) >= Len(response.chunks)

\* Two chunks at the percentile used, one at a higher percentile.
C5_Witness ==
    /\ RanSemantic
    /\ Answered
    /\ Len(response.chunks) = 2
    /\ \E q \in ValidPercentiles :
           semantic.percentile_threshold < q /\ ChunkCountAt(q) = 1

(***************************************************************************)
(* C6.  For a document with zero pages or with no text, each of the four   *)
(* chunkers returns an empty chunk list: process_pdf answers with no       *)
(* chunks and no error, and the embedding chunkers produce no fallback     *)
(* chunk.                                                                  *)
(***************************************************************************)
NoText(d) == InputWords(d) = <<>>

C6_EmptyDocumentNoChunks ==
    (file.kind = "pdf" /\ NoText(file.pages) /\ request \in Range(ChunkerKeys)) =>
        /\ Answered
        /\ response.chunks = <<>>
        /\ response.page_count = Len(file.pages)

\* The topic chunker on a document of zero pages.
C6_Witness ==
    /\ file.kind = "pdf"
    /\ file.pages = <<>>
    /\ request = TopicChunkerName(topic)
    /\ Answered
    /\ response.chunks = <<>>

(***************************************************************************)
(* C7.  As claimed: whenever process_pdf is called with an algorithm name  *)
(* that is no key of the registry, it returns a lookup failure naming the  *)
(* requested key and the valid keys, and runs no chunker.                  *)
(***************************************************************************)
Called == request # <<>>

LookupFailure ==
    /\ Failed
    /\ Len(response.error) = 4
    /\ response.error[1] = "Algorithm '"
    /\ response.error[2] = request
    /\ response.error[4] = ChunkerKeys
    /\ run = NoRun

C7_UnknownNameIsLookupFailure ==
    (Called /\ request \notin Range(ChunkerKeys)) => LookupFailure

(***************************************************************************)
(* C7, amended.  Whenever process_pdf is called with the path of an        *)
(* existing file and an algorithm name that is no key of the registry, it  *)
(* returns a lookup failure naming the requested key and the valid keys,   *)
(* and runs no chunker; when the path names no file it returns "File not   *)
(* found", whatever the algorithm name.                                    *)
(***************************************************************************)
C7_UnknownNameOfExistingFile ==
    /\ (Called /\ request \notin Range(ChunkerKeys) /\ file.kind # "missing") =>
           LookupFailure
    /\ (Called /\ file.kind = "missing") =>
           (response = FileNotFound /\ run = NoRun)

\* An unknown name asked of a readable document.
C7_Witness ==
    /\ request \in UnknownNames
    /\ file.kind = "pdf"
    /\ LookupFailure

(***************************************************************************)
(* C8.  As claimed: SentenceChunker.chunk emits one chunk per Span         *)
(* Extractor sentence unit, unchanged: the (text, bboxes) of its chunks    *)
(* are the sentence units _extract_sentences yields for the document.      *)
(***************************************************************************)
RanSentence == request = SentenceChunkerName /\ Answered

C8_SentenceChunksAreTheUnits ==
    RanSentence =>
        LET units == ExtractSentences(file.pages)
        IN  /\ Texts(response.chunks) = Texts(units)
            /\ Bboxes(response.chunks) = Bboxes(units)

(***************************************************************************)
(* C8, amended.  For every document in which no span's trimmed text ends   *)
(* in "!" or "?", SentenceChunker.chunk emits one chunk per Span Extractor *)
(* sentence unit, with the unit's bounding boxes and the unit's words in   *)
(* order; the texts may differ in the whitespace between spans.            *)
(***************************************************************************)
NoBangOrQuery(d) ==
    \A i \in DOMAIN SpanTextsOf(d) :
        ~EndsWith(Strip(SpanTextsOf(d)[i]), {"!", "?"})

C8_SentenceChunksMatchUnitsOnPeriods ==
    (RanSentence /\ NoBangOrQuery(file.pages)) =>
        LET units == ExtractSentences(file.pages)
            chunks == response.chunks
        IN  /\ Len(chunks) = Len(units)
            /\ \A i \in DOMAIN chunks :
                   /\ chunks[i].bboxes = units[i].bboxes
                   /\ Split(chunks[i].text) = Split(units[i].text)

\* A chunk of two spans whose text differs from the unit's in a doubled
\* space.
C8_Witness ==
    /\ RanSentence
    /\ NoBangOrQuery(file.pages)
    /\ \E i \in DOMAIN response.chunks :
           /\ Len(response.chunks[i].bboxes) = 2
           /\ response.chunks[i].text # ExtractSentences(file.pages)[i].text

(***************************************************************************)
(* C9.  As claimed: over any sequence of calls, the embedding model of one *)
(* model name is initialised at most once, and only when a call first      *)
(* needs an embedding.                                                     *)
(***************************************************************************)
\* The SentenceTransformer constructions so far for one model name.
LoadsOf(model_name) ==
    (IF semantic.model_name = model_name THEN loads.semantic ELSE 0)
        + (IF topic.model_name = model_name THEN loads.topic ELSE 0)

\* A call constructs a model only for the chunker it runs, only while that
\* chunker holds none, and only on its way to model.encode.
LoadsOnFirstUse ==
    /\ loads'.semantic > loads.semantic =>
           /\ semantic.model = None
           /\ run'.chunker = SemanticChunkerName
           /\ run'.locals.texts_to_embed # <<>>
    /\ loads'.topic > loads.topic =>
           /\ topic.model = None
           /\ run'.chunker = TopicChunkerName(topic)
           /\ Len(run'.locals.sentences_data) >= topic.num_topics

EmbeddedThree ==
    /\ RanSemantic
    /\ run.embedded
    /\ Len(run.locals.sentences_data) = 3

\* One chunk holding all the units in order.
OneChunkOfAll ==
    /\ Answered
    /\ Len(response.chunks) = 1
    /\ response.chunks[1].text = Join(Texts(run.locals.sentences_data), <<" ">>)
    /\ response.chunks[1].bboxes = Concat(Bboxes(run.locals.sentences_data))

ChunkEnds(chunks) == {UnitsBefore(chunks, j + 1) : j \in 1..(Len(chunks) - 1)}

FullChunkList ==
    IF request = BasicWordChunkerName
    THEN Texts(response.chunks) = [i \in DOMAIN InputWords(file.pages) |->
                                      InputWords(file.pages)[i]]
    ELSE LET boxes == Concat(Bboxes(ExtractSentences(file.pages)))
         IN  \A i \in DOMAIN boxes :
                 Count(Concat(Bboxes(response.chunks)), boxes[i]) = 1

C11_ErrorOrCompleteResponse ==
    Called =>
        \/ /\ DOMAIN response = {"error"}
           /\ response.error # <<>>
        \/ /\ DOMAIN response = {"page_count", "pages", "chunks"}
           /\ file.kind = "pdf"
           /\ response.page_count = Len(file.pages)
           /\ Len(response.pages) = Len(file.pages)
           /\ FullChunkList

\* A clustering that raised after the sentences were extracted and embedded:
\* an error result.
C11_Witness ==
    /\ RanTopic
    /\ run.embedded
    /\ Len(run.locals.sentences_data) >= 2
    /\ DOMAIN response = {"error"}

(***************************************************************************)
(* C12.  As claimed: the text of every chunk of the sentence, percentile   *)
(* and clustering strategies (the fallback chunk included) is the texts of *)
(* the sentence units it subsumes, in order, joined by whitespace: its     *)
(* words are the words of those units and nothing else.                    *)
(***************************************************************************)
\* The sentence units whose boxes the chunk holds, in document order.
Subsumed(chunk) ==
    SelectSeq(ExtractSentences(file.pages),
              LAMBDA unit : Range(unit.bboxes) \subseteq Range(chunk.bboxes))

\* process_pdf answered with the chunks of a strategy built on sentence units.
AnsweredFromUnits ==
    /\ Answered
    /\ request \in {SentenceChunkerName, SemanticChunkerName,
                    TopicChunkerName(topic)}

C12_ChunkTextIsJoinedUnits ==
    AnsweredFromUnits =>
        \A j \in DOMAIN response.chunks :
            Split(response.chunks[j].text)
                = WordsOf(Texts(Subsumed(response.chunks[j])))

(***************************************************************************)
(* C12, amended.  Every chunk of the sentence and percentile strategies    *)
(* holds the words of the sentence units it subsumes, in order: a          *)
(* percentile chunk's text is those units' texts joined by single spaces,  *)
(* a sentence chunk's text is their words with whitespace between that may *)
(* be doubled.  A clustering chunk's text is the header "TOPIC k:\n", k    *)
(* the cluster's number from 1, followed by its units' texts joined by     *)
(* "\n\n---\n\n".  The fallback chunk's text is the fixed message "Full    *)
(* Document (Too few sentences for topic modeling)" and holds no unit's    *)
(* text, though it subsumes every unit.                                    *)
(***************************************************************************)
C12_ChunkTextPerStrategy ==
    AnsweredFromUnits =>
        \A j \in DOMAIN response.chunks :
            LET chunk == response.chunks[j]
                units == Subsumed(chunk)
            IN  /\ units # <<>>
                /\ request = SemanticChunkerName =>
                       chunk.text = Join(Texts(units), <<" ">>)
                /\ request = SentenceChunkerName =>
                       Split(chunk.text) = WordsOf(Texts(units))
                /\ (RanTopic /\ "topic_id" \in DOMAIN chunk.metadata) =>
                       chunk.text =
                           <<"TOPIC ", Str(chunk.metadata.topic_id + 1), ":\n">>
                               \o Join(Texts(units), <<TopicSeparator>>)
                /\ (RanTopic /\ "topic_id" \notin DOMAIN chunk.metadata) =>
                       /\ chunk.text = <<FallbackText>>
                       /\ units = ExtractSentences(file.pages)

\* A clustering chunk of two units, under its header.
C12_Witness ==
    /\ RanTopic
    /\ Answered
    /\ \E j \in DOMAIN response.chunks :
           /\ "topic_id" \in DOMAIN response.chunks[j].metadata
           /\ Len(Subsumed(response.chunks[j])) = 2

====
